---------------------------- MODULE Spec2Model ----------------------------
(***************************************************************************)
(* The gpio connection type of the hd44780 driver                          *)
(* (server/drivers/hd44780-gpio.c): the sysfs pin lifecycle                *)
(* (setup_gpio_pin, close_gpio_pin), the initialisation hd_init_gpio, the  *)
(* nibble transmission lcdgpio_HD44780_senddata, the backlight switch and  *)
(* the shutdown.                                                           *)
(*                                                                         *)
(* Every handler is one atomic action.  What a handler does to the outside *)
(* world (sysfs writes, pin writes, pauses) is recorded, in program order, *)
(* in the event log of the call; the logs of the last two calls are kept.  *)
(***************************************************************************)
EXTENDS Integers, Sequences, FiniteSets

(***************************************************************************)
(* Program constants.                                                      *)
(***************************************************************************)
GPIO_DEF_D7 == 18
GPIO_DEF_D6 == 23
GPIO_DEF_D5 == 24
GPIO_DEF_D4 == 25
GPIO_DEF_RS == 7
GPIO_DEF_EN == 8
GPIO_DEF_EN2 == 22
GPIO_DEF_BL == 17

\* hd44780-low.h / lcd.h values used by the connection type
RS_DATA == 0
RS_INSTR == 1
BACKLIGHT_OFF == 0
BACKLIGHT_ON == 1

\* the pause between two steps of the nibble protocol, in microseconds
T_STEP == 50
\* the pauses of the bring-up after the first and the second byte
T_AFTER_33 == 4100
T_AFTER_32 == 150

(***************************************************************************)
(* Bounds and input sets.                                                  *)
(***************************************************************************)
\* the number of fopen() calls of one initialisation the OS may refuse
MaxFaults == 1
\* the three files setup_gpio_pin opens
Opens == {"export", "direction", "value"}

\* the bytes the generic driver transmits: the two bring-up bytes 0x32 and
\* 0x33, and 0x5A and 0xA5, in which every bit of both nibbles takes both values
ByteValues == {50, 51, 90, 165}
\* unsigned char ch
AllBytes == 0..255
DisplayIDs == {0, 1, 2}
Flags == {RS_INSTR, RS_DATA}
BacklightStates == {BACKLIGHT_OFF, BACKLIGHT_ON}
\* the values pin_BL is configured to
BacklightPins == {GPIO_DEF_BL, 40}
\* p->backlight_bit as the generic driver leaves it before hd_init_gpio
InitialBacklightBits == {0, -1}

(***************************************************************************)
(* struct gpio_map: the roles, in declaration order.                       *)
(***************************************************************************)
Roles == {"en", "en2", "rs", "d7", "d6", "d5", "d4", "backlight"}
DataRoles == {"d7", "d6", "d5", "d4"}

\* an int or pointer that was never assigned (malloc'ed memory)
Indeterminate == -1

\* gpio_pin plus the kernel's side of the pin:
\*   num, fd    the fields of gpio_pin (fd: "uninit", "null", "open", "closed")
\*   exported   the pin is exported to this process
\*   dir, level the direction and output level the kernel holds for it
FreshPin == [num |-> Indeterminate, fd |-> "uninit", exported |-> FALSE,
             dir |-> "in", level |-> 0]

VARIABLES
    numDisplays,     \* p->numDisplays
    have_backlight,  \* p->have_backlight
    pin_BL,          \* the configured value of pin_BL
    backlight_bit,   \* p->backlight_bit
    gpio_pinout,     \* p->gpio_pinout is allocated
    pins,            \* p->gpio_pinout's members and the kernel's pin state
    hooks,           \* p->hd44780_functions: which hooks are registered
    acquired,        \* the roles whose setup_gpio_pin returned 0
    fault,           \* role -> the fopen()s the OS refuses in its setup_gpio_pin
    ret,             \* <<>> or <<r>>, r the value hd_init_gpio returned
    phase,           \* "unconfigured", "operational", "failed", "released"
    crashed,         \* the process was killed inside a handler
    ub,              \* undefined behaviour has been executed
    initLog,         \* the event log of hd_init_gpio
    prev, prevLog,   \* the call before the last one, and its event log
    last, log        \* the last call, and its event log

vars == <<numDisplays, have_backlight, pin_BL, backlight_bit, gpio_pinout,
          pins, hooks, acquired, fault, ret, phase, crashed, ub, initLog,
          prev, prevLog, last, log>>

(***************************************************************************)
(* The machine a handler transforms: the mutable part of the state.        *)
(* trap: what the build does on undefined behaviour: kill the process, or   *)
(* let the call return and carry on.                                       *)
(***************************************************************************)
Cur(trap) ==
    [pins |-> pins, hooks |-> hooks, backlight_bit |-> backlight_bit,
     gpio_pinout |-> gpio_pinout, acquired |-> acquired,
     log |-> <<>>, rc |-> 0, crashed |-> crashed, ub |-> ub, trap |-> trap]

\* the outcomes of a handler, given the machine it leaves when the build
\* carries on and when it traps: one, unless it executes undefined behaviour
Outcomes(carriedOn, trapped) ==
    IF carriedOn.ub THEN {carriedOn, trapped} ELSE {carriedOn}

Event(op, pin, val, eff) == [op |-> op, pin |-> pin, val |-> val, eff |-> eff]

Emit(m, e) == [m EXCEPT !.log = Append(@, e)]

\* A step of undefined behaviour (a FILE* that is NULL, stale or was never
\* assigned handed to stdio): the build either kills the process or carries on.
Undefined(m) ==
    IF m.trap THEN [m EXCEPT !.crashed = TRUE, !.ub = TRUE]
    ELSE [m EXCEPT !.ub = TRUE]

RECURSIVE BitAnd(_, _)
BitAnd(a, b) ==
    IF a = 0 \/ b = 0 THEN 0
    ELSE (a % 2) * (b % 2) + 2 * BitAnd(a \div 2, b \div 2)

(***************************************************************************)
(* setup_gpio_pin: export the pin, make it an output at low level, open    *)
(* its value file.  refused: the fopen()s the OS refuses for this pin.     *)
(***************************************************************************)
setup_gpio_pin(m, r, refused) ==
    IF m.crashed THEN m
    ELSE IF "export" \in refused
    THEN [Emit(Emit(m, Event("export", r, m.pins[r].num, FALSE)),
               Event("setup_ret", r, -1, TRUE)) EXCEPT !.rc = -1]
    ELSE
      LET m1 == Emit([m EXCEPT !.pins[r].exported = TRUE],
                     Event("export", r, m.pins[r].num, TRUE))
          \* fp is not checked before fprintf(fp, "low") and fclose(fp)
          m2 == IF "direction" \in refused
                THEN Undefined(Emit(m1, Event("direction_low", r, 0, FALSE)))
                ELSE Emit([m1 EXCEPT !.pins[r].dir = "out", !.pins[r].level = 0],
                          Event("direction_low", r, 0, TRUE))
          \* a NULL fp is stored in gpio->fd and 0 is returned all the same
          m3 == IF "value" \in refused
                THEN Emit([m2 EXCEPT !.pins[r].fd = "null"],
                          Event("open_value", r, 0, FALSE))
                ELSE Emit([m2 EXCEPT !.pins[r].fd = "open"],
                          Event("open_value", r, 0, TRUE))
      IN IF m2.crashed THEN m2
         ELSE [Emit(m3, Event("setup_ret", r, 0, TRUE))
                  EXCEPT !.rc = 0, !.acquired = @ \cup {r}]

(***************************************************************************)
(* close_gpio_pin: direction back to "in", close the handle, unexport.     *)
(* The direction file of a pin exists only while the pin is exported.      *)
(* garbageIsNull: what an fd that was never assigned compares to.          *)
(***************************************************************************)
close_gpio_pin(m, r, garbageIsNull) ==
    IF m.crashed THEN m
    ELSE
      LET fd == m.pins[r].fd
          m1 == IF m.pins[r].exported
                THEN Emit([m EXCEPT !.pins[r].dir = "in"],
                          Event("direction_in", r, 0, TRUE))
                ELSE Undefined(Emit(m, Event("direction_in", r, 0, FALSE)))
          m2 == IF fd = "null" \/ (fd = "uninit" /\ garbageIsNull) THEN m1
                ELSE IF fd = "open"
                THEN Emit([m1 EXCEPT !.pins[r].fd = "closed"],
                          Event("fclose", r, 0, TRUE))
                ELSE Undefined(Emit(m1, Event("fclose", r, 0, FALSE)))
          m3 == Emit([m2 EXCEPT !.pins[r].exported = FALSE],
                     Event("unexport", r, m.pins[r].num, m.pins[r].exported))
      IN IF m1.crashed THEN m1
         ELSE IF m2.crashed THEN m2
         ELSE m3

(***************************************************************************)
(* lcdgpio_HD44780_close                                                   *)
(***************************************************************************)
CloseBacklight(m, g) ==
    IF have_backlight THEN close_gpio_pin(m, "backlight", g) ELSE m

\* the second enable pin is forgotten
CloseEN2Forgotten(m, g) == m

CloseEN2(m, g) ==
    IF numDisplays > 1 THEN close_gpio_pin(m, "en2", g) ELSE m

\* the six pins every configuration has, in the order of the code
RECURSIVE CloseRequired(_, _, _)
CloseRequired(m, order, g) ==
    IF order = <<>> THEN m
    ELSE LET n == close_gpio_pin(m, Head(order), g)
         IN IF n.crashed THEN n ELSE CloseRequired(n, Tail(order), g)

lcdgpio_HD44780_close(m, g) ==
    LET m6 == CloseRequired(m, <<"en", "rs", "d7", "d6", "d5", "d4">>, g)
    IN IF m6.crashed THEN m6 ELSE
    LET m7 == CloseBacklight(m6, g)
    IN IF m7.crashed THEN m7 ELSE
    LET m8 == CloseEN2(m7, g)
    IN IF m8.crashed THEN m8
       ELSE Emit([m8 EXCEPT !.gpio_pinout = FALSE], Event("free", "none", 0, TRUE))

(***************************************************************************)
(* SET_GPIO and the pause hook.                                            *)
(***************************************************************************)
\* the handle is closed after the write
SET_GPIOClosing(m, r, value) ==
    LET bit == IF value # 0 THEN 1 ELSE 0
    IN IF m.crashed THEN m
       ELSE IF m.pins[r].fd = "open"
       THEN Emit([m EXCEPT !.pins[r].level =
                      IF m.pins[r].exported /\ m.pins[r].dir = "out" THEN bit ELSE @,
                           !.pins[r].fd = "closed"],
                 Event("set", r, bit, TRUE))
       ELSE Undefined(Emit(m, Event("set", r, bit, FALSE)))

SET_GPIO(m, r, value) ==
    LET bit == IF value # 0 THEN 1 ELSE 0
    IN IF m.crashed THEN m
       ELSE IF m.pins[r].fd = "open"
       THEN Emit([m EXCEPT !.pins[r].level =
                      IF m.pins[r].exported /\ m.pins[r].dir = "out" THEN bit ELSE @],
                 Event("set", r, bit, TRUE))
       ELSE Undefined(Emit(m, Event("set", r, bit, FALSE)))

uPause(m, usecs) ==
    IF m.crashed THEN m ELSE Emit(m, Event("pause", "none", usecs, TRUE))

(***************************************************************************)
(* lcdgpio_HD44780_senddata                                                *)
(***************************************************************************)
\* the two levels exchanged
SetRSInverted(m, flags) ==
    IF flags = RS_INSTR THEN SET_GPIO(m, "rs", 1) ELSE SET_GPIO(m, "rs", 0)

SetRS(m, flags) ==
    IF flags = RS_INSTR THEN SET_GPIO(m, "rs", 0) ELSE SET_GPIO(m, "rs", 1)

ClearData(m) ==
    uPause(SET_GPIO(SET_GPIO(SET_GPIO(SET_GPIO(m, "d7", 0), "d6", 0), "d5", 0),
                    "d4", 0), T_STEP)

\* D6 and D5 take each other's bit
UpperNibbleCrossed(m, ch) ==
    uPause(SET_GPIO(SET_GPIO(SET_GPIO(SET_GPIO(m,
               "d7", BitAnd(ch, 128)), "d6", BitAnd(ch, 32)),
               "d5", BitAnd(ch, 64)), "d4", BitAnd(ch, 16)), T_STEP)

UpperNibble(m, ch) ==
    uPause(SET_GPIO(SET_GPIO(SET_GPIO(SET_GPIO(m,
               "d7", BitAnd(ch, 128)), "d6", BitAnd(ch, 64)),
               "d5", BitAnd(ch, 32)), "d4", BitAnd(ch, 16)), T_STEP)

\* the masks of the upper nibble, left as they were
LowerNibbleUpperMasks(m, ch) ==
    uPause(SET_GPIO(SET_GPIO(SET_GPIO(SET_GPIO(m,
               "d7", BitAnd(ch, 128)), "d6", BitAnd(ch, 64)),
               "d5", BitAnd(ch, 32)), "d4", BitAnd(ch, 16)), T_STEP)

LowerNibble(m, ch) ==
    uPause(SET_GPIO(SET_GPIO(SET_GPIO(SET_GPIO(m,
               "d7", BitAnd(ch, 8)), "d6", BitAnd(ch, 4)),
               "d5", BitAnd(ch, 2)), "d4", BitAnd(ch, 1)), T_STEP)

\* "all displays" (0) is left out
SelectsENFirstOnly(displayID) == displayID = 1

SelectsEN(displayID) == displayID = 1 \/ displayID = 0

SelectsEN2(displayID) == displayID = 2 \/ (numDisplays > 1 /\ displayID = 0)

\* the pause after the write is left out
SetEnablesUnpaced(m, displayID, value) ==
    LET m1 == IF SelectsEN(displayID) THEN SET_GPIO(m, "en", value) ELSE m
    IN IF SelectsEN2(displayID) THEN SET_GPIO(m1, "en2", value) ELSE m1

SetEnables(m, displayID, value) ==
    LET m1 == IF SelectsEN(displayID) THEN SET_GPIO(m, "en", value) ELSE m
        m2 == IF SelectsEN2(displayID) THEN SET_GPIO(m1, "en2", value) ELSE m1
    IN uPause(m2, T_STEP)

PulseEnables(m, displayID) ==
    LET h == SetEnables(m, displayID, 1)
    IN IF h.crashed THEN h ELSE SetEnables(h, displayID, 0)

\* the statements run in program order; a killed process runs no further
lcdgpio_HD44780_senddata(m, displayID, flags, ch) ==
    LET m1 == ClearData(SetRS(m, flags))
    IN IF m1.crashed THEN m1 ELSE
    LET m2 == UpperNibble(m1, ch)
    IN IF m2.crashed THEN m2 ELSE
    LET m3 == PulseEnables(m2, displayID)
    IN IF m3.crashed THEN m3 ELSE
    LET m4 == ClearData(m3)
    IN IF m4.crashed THEN m4 ELSE
    LET m5 == LowerNibble(m4, ch)
    IN IF m5.crashed THEN m5 ELSE PulseEnables(m5, displayID)

(***************************************************************************)
(* lcdgpio_HD44780_backlight                                               *)
(***************************************************************************)
\* the range check on backlight_bit is left out
BacklightUnguarded(m, state) ==
    SET_GPIO(m, "backlight", IF state = BACKLIGHT_ON THEN 1 ELSE 0)

lcdgpio_HD44780_backlight(m, state) ==
    IF m.backlight_bit > -1 /\ m.backlight_bit < 32
    THEN SET_GPIO(m, "backlight", IF state = BACKLIGHT_ON THEN 1 ELSE 0)
    ELSE m

(***************************************************************************)
(* hd_init_gpio                                                            *)
(***************************************************************************)
\* the pin numbers config_get_int yields, written into the new gpio_map
BindPins(m) ==
    LET b1 == [m.pins EXCEPT !["en"].num = GPIO_DEF_EN, !["rs"].num = GPIO_DEF_RS,
                             !["d7"].num = GPIO_DEF_D7, !["d6"].num = GPIO_DEF_D6,
                             !["d5"].num = GPIO_DEF_D5, !["d4"].num = GPIO_DEF_D4]
        b2 == IF numDisplays > 1 THEN [b1 EXCEPT !["en2"].num = GPIO_DEF_EN2] ELSE b1
        b3 == IF have_backlight THEN [b2 EXCEPT !["backlight"].num = pin_BL] ELSE b2
    IN [m EXCEPT !.gpio_pinout = TRUE, !.pins = b3,
                 !.backlight_bit = IF have_backlight THEN pin_BL ELSE @]

RegisterHooks(m) ==
    [m EXCEPT !.hooks.senddata = TRUE, !.hooks.close = TRUE]

RegisterBacklight(m) ==
    [m EXCEPT !.hooks.backlight = TRUE]

\* "Setup the lcd in 4 bit mode": the two bytes and their pauses; common_init
\* belongs to the generic driver
BringUp(m) ==
    LET m1 == lcdgpio_HD44780_senddata(m, 0, RS_INSTR, 51)
    IN IF m1.crashed THEN m1 ELSE
    LET m2 == lcdgpio_HD44780_senddata(uPause(m1, T_AFTER_33), 0, RS_INSTR, 50)
    IN IF m2.crashed THEN m2 ELSE uPause(m2, T_AFTER_32)

Stopped(m) == m.crashed \/ m.rc < 0

\* the hook is registered with or without a backlight
SetupBacklightHookAlways(m, plan) ==
    IF have_backlight
    THEN LET b == setup_gpio_pin(m, "backlight", plan["backlight"])
         IN IF Stopped(b) THEN b ELSE RegisterBacklight(b)
    ELSE RegisterBacklight(m)

\* the backlight pin and its hook
SetupBacklight(m, plan) ==
    IF have_backlight
    THEN LET b == setup_gpio_pin(m, "backlight", plan["backlight"])
         IN IF Stopped(b) THEN b ELSE RegisterBacklight(b)
    ELSE m

\* EN2 is set up for a single controller too
SetupEN2AnyCount(m, plan) ==
    IF numDisplays >= 1 THEN setup_gpio_pin(m, "en2", plan["en2"]) ELSE m

\* the second controller's enable pin
SetupEN2(m, plan) ==
    IF numDisplays > 1 THEN setup_gpio_pin(m, "en2", plan["en2"]) ELSE m

\* the optional pins, the bring-up and the return
InitOptional(m, plan) ==
    LET b == SetupBacklight(m, plan)
        e == IF Stopped(b) THEN b ELSE SetupEN2(b, plan)
    IN IF Stopped(e) THEN e
       ELSE [BringUp(e) EXCEPT !.rc = 0]

\* the six pins every configuration has, in the order of the code
RECURSIVE InitRequired(_, _, _)
InitRequired(m, plan, order) ==
    IF order = <<>> THEN m
    ELSE LET n == setup_gpio_pin(m, Head(order), plan[Head(order)])
         IN IF Stopped(n) THEN n ELSE InitRequired(n, plan, Tail(order))

\* the data lines before Enable and Register-Select
RequiredOrderDataFirst == <<"d7", "d6", "d5", "d4", "en", "rs">>

RequiredOrder == <<"en", "rs", "d7", "d6", "d5", "d4">>

hd_init_gpio(m, plan, mallocOK) ==
    IF ~mallocOK THEN [m EXCEPT !.rc = -1]
    ELSE LET m1 == InitRequired(BindPins(m), plan, RequiredOrder)
         IN IF Stopped(m1) THEN m1
            ELSE InitOptional(RegisterHooks(m1), plan)

(***************************************************************************)
(* The generic driver's side: it calls a hook only when it is registered.  *)
(***************************************************************************)
HD44780_backlight(m, state) ==
    IF m.hooks.backlight THEN lcdgpio_HD44780_backlight(m, state) ELSE m

\* the roles the configuration uses
ActiveRoles ==
    {"en", "rs", "d7", "d6", "d5", "d4"}
        \cup (IF have_backlight THEN {"backlight"} ELSE {})
        \cup (IF numDisplays > 1 THEN {"en2"} ELSE {})

\* the sets of at most n refused fopen()s, each a <<role, file>> pair
RECURSIVE PlansOf(_)
PlansOf(n) ==
    IF n = 0 THEN {{}}
    ELSE LET P == PlansOf(n - 1)
         IN P \cup {S \cup {x} : S \in P, x \in ActiveRoles \X Opens}

Refused(plan) == [r \in Roles |-> {o \in Opens : <<r, o>> \in plan}]

Call(fn, args) == [fn |-> fn, args |-> args]
NoCall == Call("none", <<>>)

(***************************************************************************)
(* The state machine.                                                      *)
(***************************************************************************)
Init ==
    /\ numDisplays \in {1, 2}
    /\ have_backlight \in BOOLEAN
    /\ pin_BL \in BacklightPins
    /\ backlight_bit \in InitialBacklightBits
    /\ (have_backlight \/ pin_BL = GPIO_DEF_BL)
    /\ (have_backlight => backlight_bit = 0)
    /\ gpio_pinout = FALSE
    /\ pins = [r \in Roles |-> FreshPin]
    /\ hooks = [senddata |-> FALSE, close |-> FALSE, backlight |-> FALSE]
    /\ acquired = {}
    /\ fault = {}
    /\ ret = <<>>
    /\ phase = "unconfigured"
    /\ crashed = FALSE
    /\ ub = FALSE
    /\ initLog = <<>>
    /\ prev = NoCall
    /\ prevLog = <<>>
    /\ last = NoCall
    /\ log = <<>>

Commit(s) ==
    /\ pins' = s.pins
    /\ hooks' = s.hooks
    /\ backlight_bit' = s.backlight_bit
    /\ gpio_pinout' = s.gpio_pinout
    /\ acquired' = s.acquired
    /\ crashed' = s.crashed
    /\ ub' = s.ub

Record(call, s) ==
    /\ prev' = last
    /\ prevLog' = log
    /\ last' = call
    /\ log' = s.log

\* the driver is in use: initialised, not shut down, the process alive and
\* its behaviour still defined
InUse == phase = "operational" /\ ~crashed /\ ~ub

DriverInit ==
    /\ phase = "unconfigured" /\ ret = <<>> /\ ~crashed
    /\ \E plan \in PlansOf(MaxFaults), mallocOK \in BOOLEAN :
         /\ mallocOK \/ plan = {}
         /\ \E s \in Outcomes(hd_init_gpio(Cur(FALSE), Refused(plan), mallocOK),
                         hd_init_gpio(Cur(TRUE), Refused(plan), mallocOK)) :
               /\ Commit(s)
               /\ fault' = plan
               /\ initLog' = s.log
               /\ ret' = IF s.crashed THEN <<>> ELSE <<s.rc>>
               /\ phase' = IF s.crashed THEN phase
                           ELSE IF s.rc = 0 THEN "operational" ELSE "failed"
    /\ UNCHANGED <<numDisplays, have_backlight, pin_BL, prev, prevLog,
                   last, log>>

SendByteOf(bytes) ==
    /\ InUse /\ hooks.senddata
    /\ \E displayID \in DisplayIDs, flags \in Flags, ch \in bytes :
         \E s \in Outcomes(lcdgpio_HD44780_senddata(Cur(FALSE), displayID, flags, ch),
                         lcdgpio_HD44780_senddata(Cur(TRUE), displayID, flags, ch)) :
            /\ Commit(s)
            /\ Record(Call("senddata", <<displayID, flags, ch>>), s)
    /\ UNCHANGED <<numDisplays, have_backlight, pin_BL, fault, ret, phase,
                   initLog>>

SendByte == SendByteOf(ByteValues)

\* the first byte after the initialisation, any value of unsigned char
SendAnyByte == last = NoCall /\ SendByteOf(AllBytes)

SetBacklight ==
    /\ InUse
    /\ \E state \in BacklightStates :
         \E s \in Outcomes(HD44780_backlight(Cur(FALSE), state),
                         HD44780_backlight(Cur(TRUE), state)) :
            /\ Commit(s)
            /\ Record(Call("backlight", <<state>>), s)
    /\ UNCHANGED <<numDisplays, have_backlight, pin_BL, fault, ret, phase,
                   initLog>>

Shutdown ==
    /\ phase \in {"operational", "failed"} /\ ~crashed /\ ~ub
    /\ hooks.close
    /\ \E garbageIsNull \in BOOLEAN :
         \E s \in Outcomes(lcdgpio_HD44780_close(Cur(FALSE), garbageIsNull),
                         lcdgpio_HD44780_close(Cur(TRUE), garbageIsNull)) :
            /\ Commit(s)
            /\ Record(Call("close", <<>>), s)
            /\ phase' = IF s.crashed THEN phase ELSE "released"
    /\ UNCHANGED <<numDisplays, have_backlight, pin_BL, fault, ret, initLog>>

Next == DriverInit \/ SendByte \/ SetBacklight \/ Shutdown

Spec == Init /\ [][Next]_vars

\* close_gpio_pin on its own, on one pin of the map: the pin released is the
\* one released before, if any
ReleasePin ==
    /\ phase \in {"operational", "failed"} /\ ~crashed /\ ~ub /\ gpio_pinout
    /\ \E r \in Roles, garbageIsNull \in BOOLEAN :
         /\ last = NoCall \/ last = Call("release", <<r>>)
         /\ \E s \in Outcomes(close_gpio_pin(Cur(FALSE), r, garbageIsNull),
                           close_gpio_pin(Cur(TRUE), r, garbageIsNull)) :
               /\ Commit(s)
               /\ Record(Call("release", <<r>>), s)
    /\ UNCHANGED <<numDisplays, have_backlight, pin_BL, fault, ret, phase,
                   initLog>>

\* the releases of one pin after an initialisation
NextRelease == DriverInit \/ ReleasePin

SpecRelease == Init /\ [][NextRelease]_vars

\* one transmission of every byte value, in every configuration
NextAllBytes == DriverInit \/ SendAnyByte

SpecAllBytes == Init /\ [][NextAllBytes]_vars

(***************************************************************************)
(* Reading an event log.                                                   *)
(***************************************************************************)
IsSet(e, r) == e.op = "set" /\ e.pin = r

\* the positions of the writes to pin r
SetsOn(l, r) == {i \in 1..Len(l) : IsSet(l[i], r)}

Maximum(S) == CHOOSE x \in S : \A y \in S : y <= x
Minimum(S) == CHOOSE x \in S : \A y \in S : x <= y

RECURSIVE Ascending(_)
Ascending(S) ==
    IF S = {} THEN <<>>
    ELSE <<Minimum(S)>> \o Ascending(S \ {Minimum(S)})

\* the values written to pin r, in order, whether or not they reached the pin
WritesTo(l, r) ==
    LET at == Ascending(SetsOn(l, r))
    IN [k \in 1..Len(at) |-> l[at[k]].val]

\* the level of line r after event i: that of the last write that reached
\* the pin, -1 when the call has not driven the line yet
LineAt(l, r, i) ==
    LET S == {j \in SetsOn(l, r) : j <= i /\ l[j].eff}
    IN IF S = {} THEN -1 ELSE l[Maximum(S)].val

\* the positions at which line r falls from high to low
FallingEdges(l, r) ==
    {i \in SetsOn(l, r) : l[i].eff /\ l[i].val = 0 /\ LineAt(l, r, i - 1) = 1}

\* the nibble on D7..D4 after event i
NibbleAt(l, i) ==
    8 * LineAt(l, "d7", i) + 4 * LineAt(l, "d6", i)
        + 2 * LineAt(l, "d5", i) + LineAt(l, "d4", i)

\* the nibbles line r latches, in order
Latched(l, r) ==
    LET at == Ascending(FallingEdges(l, r))
    IN [k \in 1..Len(at) |-> NibbleAt(l, at[k])]

Bit(v, k) == (v \div (2 ^ k)) % 2

SentByte == last.fn = "senddata"
Returned == ~crashed
EnableLines == {"en", "en2"}

\* the lines the selection rule names for a target display
Selects(r, displayID) ==
    IF r = "en" THEN displayID \in {0, 1}
    ELSE displayID = 2 \/ (displayID = 0 /\ numDisplays = 2)

DataLine == <<"d4", "d5", "d6", "d7">>

(***************************************************************************)
(* C1: one SendByte puts bits 7..4 of the byte on D7..D4 at the first      *)
(* falling edge of every selected Enable line and bits 3..0 at the second: *)
(* a data line is high exactly when its bit is 1, the high nibble first.   *)
(* Checked for all 256 byte values under SpecAllBytes.                     *)
(***************************************************************************)
C1_NibblesAtFallingEdges ==
    SentByte =>
      \A r \in EnableLines :
        LET E == Ascending(FallingEdges(log, r))
        IN /\ Len(E) \in {0, 2}
           /\ (Returned /\ Selects(r, last.args[1]) /\ pins[r].fd = "open")
                 => Len(E) = 2
           /\ Len(E) = 2 =>
                \A k \in 0..3 :
                   /\ LineAt(log, DataLine[k + 1], E[1]) = Bit(last.args[3], 4 + k)
                   /\ LineAt(log, DataLine[k + 1], E[2]) = Bit(last.args[3], k)

C1_Witness ==
    /\ SentByte /\ Returned /\ numDisplays = 2
    /\ last.args = <<0, RS_DATA, 165>>
    /\ Latched(log, "en") = <<10, 5>>
    /\ Latched(log, "en2") = <<10, 5>>

(***************************************************************************)
(* C2: in one SendByte every selected Enable line is written high then low *)
(* once per nibble and an unselected line is not written at all; Enable is *)
(* selected by First and All, Enable2 by Second and by All when two        *)
(* controllers are configured.                                             *)
(***************************************************************************)
C2_OnePulsePerNibble ==
    (SentByte /\ Returned) =>
      LET D == Ascending(UNION {SetsOn(log, d) : d \in DataRoles})
      IN /\ Len(D) = 16
         /\ \A r \in EnableLines :
              LET P == Ascending(SetsOn(log, r))
              IN IF Selects(r, last.args[1])
                 THEN /\ WritesTo(log, r) = <<1, 0, 1, 0>>
                      /\ D[8] < P[1] /\ P[2] < D[9]
                      /\ D[16] < P[3]
                 ELSE P = <<>>

C2_Witness ==
    /\ SentByte /\ Returned /\ numDisplays = 2 /\ last.args[1] = 0
    /\ WritesTo(log, "en") = <<1, 0, 1, 0>>
    /\ WritesTo(log, "en2") = <<1, 0, 1, 0>>
    /\ Cardinality(FallingEdges(log, "en")) = 2
    /\ Cardinality(FallingEdges(log, "en2")) = 2

(***************************************************************************)
(* C5: SendByte writes Register-Select first, low for an instruction and   *)
(* high for data, and never again in the call: the line holds that level   *)
(* at every falling edge of an Enable line.                                *)
(***************************************************************************)
C5_RegisterSelectHeld ==
    SentByte =>
      LET level == IF last.args[2] = RS_INSTR THEN 0 ELSE 1
      IN /\ log # <<>>
         /\ IsSet(log[1], "rs") /\ log[1].eff /\ log[1].val = level
         /\ SetsOn(log, "rs") = {1}
         /\ \A r \in EnableLines :
              \A i \in FallingEdges(log, r) : LineAt(log, "rs", i) = level
         /\ pins["rs"].level = level

C5_Witness ==
    /\ SentByte /\ Returned
    /\ last.args[2] = RS_DATA
    /\ Cardinality(FallingEdges(log, "en")) = 2
    /\ \A i \in FallingEdges(log, "en") : LineAt(log, "rs", i) = 1

\* the pins a configuration needs
RolesOf(n, bl) ==
    {"en", "rs", "d7", "d6", "d5", "d4"}
        \cup (IF bl THEN {"backlight"} ELSE {})
        \cup (IF n > 1 THEN {"en2"} ELSE {})

\* a pin under the driver's control
Claimed(r) == pins[r].exported /\ pins[r].dir = "out" /\ pins[r].fd = "open"

\* the roles hd_init_gpio asked the OS to export
ExportsAsked == {initLog[i].pin : i \in {j \in 1..Len(initLog) : initLog[j].op = "export"}}

NoPinWrite(l) == \A i \in 1..Len(l) : l[i].op # "set"

(***************************************************************************)
(* C3: a successful hd_init_gpio acquires exactly the pins of the active   *)
(* roles: the six required ones, Backlight iff a backlight is present,     *)
(* Enable2 iff more than one controller is configured.                     *)
(***************************************************************************)
C3_AcquiresExactlyActivePins ==
    ret = <<0>> =>
      /\ acquired = RolesOf(numDisplays, have_backlight)
      /\ ExportsAsked = RolesOf(numDisplays, have_backlight)
      /\ phase = "operational" =>
           /\ {r \in Roles : pins[r].exported} = RolesOf(numDisplays, have_backlight)
           /\ fault = {} =>
                {r \in Roles : Claimed(r)} = RolesOf(numDisplays, have_backlight)

C3_Witness ==
    /\ ret = <<0>> /\ phase = "operational" /\ fault = {}
    /\ numDisplays = 1 /\ have_backlight
    /\ {r \in Roles : Claimed(r)} = {"en", "rs", "d7", "d6", "d5", "d4", "backlight"}

(***************************************************************************)
(* C4: shutdown after a successful initialisation releases every pin the   *)
(* initialisation acquired: direction Input, no open value handle, not     *)
(* exported.                                                               *)
(***************************************************************************)
C4_ShutdownReleasesAcquired ==
    (phase = "released" /\ ret = <<0>>) =>
      /\ last.fn = "close"
      /\ acquired = RolesOf(numDisplays, have_backlight)
      /\ \A r \in acquired :
           /\ pins[r].dir = "in"
           /\ pins[r].fd \in {"closed", "null"}
           /\ ~pins[r].exported
           /\ \E i \in 1..Len(log) :
                log[i] = Event("direction_in", r, 0, TRUE)
           /\ \E i \in 1..Len(log) :
                log[i] = Event("unexport", r, pins[r].num, TRUE)
      /\ \A r \in Roles : ~Claimed(r)

C4_Witness ==
    /\ phase = "released" /\ ret = <<0>> /\ fault = {}
    /\ numDisplays = 2 /\ have_backlight
    /\ \A r \in Roles : pins[r].fd = "closed" /\ pins[r].dir = "in" /\ ~pins[r].exported

(***************************************************************************)
(* C8: SendByte(First, Instruction, 0x33) then SendByte(First,             *)
(* Instruction, 0x32) present the nibbles 3, 3, 3, 2 on D7..D4 at four     *)
(* successive falling edges of Enable, Enable is pulsed exactly four       *)
(* times, and Register-Select is low at each edge.                         *)
(***************************************************************************)
ResetPair ==
    /\ prev = Call("senddata", <<1, RS_INSTR, 51>>)
    /\ last = Call("senddata", <<1, RS_INSTR, 50>>)

C8_ResetNibbleSequence ==
    ResetPair =>
      /\ Returned
      /\ Latched(prevLog, "en") \o Latched(log, "en") = <<3, 3, 3, 2>>
      /\ WritesTo(prevLog, "en") \o WritesTo(log, "en") = <<1, 0, 1, 0, 1, 0, 1, 0>>
      /\ \A i \in FallingEdges(prevLog, "en") : LineAt(prevLog, "rs", i) = 0
      /\ \A i \in FallingEdges(log, "en") : LineAt(log, "rs", i) = 0
      /\ WritesTo(prevLog, "en2") = <<>> /\ WritesTo(log, "en2") = <<>>

C8_Witness ==
    /\ ResetPair /\ Returned
    /\ Latched(prevLog, "en") = <<3, 3>>
    /\ Latched(log, "en") = <<3, 2>>

(***************************************************************************)
(* C9: with no backlight configured, SetBacklight(off) followed by         *)
(* SetBacklight(on) writes no pin: no SetBacklight call does, neither the  *)
(* last one nor the one before it.                                         *)
(***************************************************************************)
BacklightPair ==
    /\ prev = Call("backlight", <<BACKLIGHT_OFF>>)
    /\ last = Call("backlight", <<BACKLIGHT_ON>>)

AcquireOrder == <<"en", "rs", "d7", "d6", "d5", "d4", "backlight", "en2">>
OrderOf(r) == CHOOSE k \in 1..Len(AcquireOrder) : AcquireOrder[k] = r

\* the roles whose setup_gpio_pin ran into a refused fopen()
FailedRoles == {r \in ExportsAsked : \E o \in Opens : <<r, o>> \in fault}

SetupReturned(r, rc) ==
    \E i \in 1..Len(initLog) : initLog[i] = Event("setup_ret", r, rc, TRUE)

(***************************************************************************)
(* C6: setup_gpio_pin fails with an error result when the export control,  *)
(* the direction control or the value control cannot be opened, and keeps  *)
(* no write handle for the pin.  The code returns -1 only for the export   *)
(* control.                                                                *)
(***************************************************************************)
C6_AcquireFailsOnRefusedOpen ==
    \A r \in FailedRoles :
       /\ SetupReturned(r, -1)
       /\ pins[r].fd # "open"

(***************************************************************************)
(* C7: releasing a pin that was never acquired does nothing: no write to   *)
(* its direction control, no handle closed, no unexport, no error; so too  *)
(* for the pins shutdown releases after an initialisation that failed      *)
(* part-way.  close_gpio_pin does all three unconditionally.               *)
(***************************************************************************)
C7_ReleaseOfUnacquiredIsNoOp ==
    last.fn = "close" =>
      /\ Returned /\ ~ub
      /\ \A i \in 1..Len(log) : log[i].pin \notin (Roles \ acquired)

(***************************************************************************)
(* C10: when acquiring a pin fails, hd_init_gpio aborts with an error: no  *)
(* later pin is acquired, no bring-up byte is sent, and the pins acquired  *)
(* before stay claimed.  The code goes on after a refused direction or     *)
(* value control.                                                          *)
(***************************************************************************)
C10_FailedAcquireAborts ==
    \A r \in FailedRoles :
       /\ ret = <<-1>>
       /\ \A q \in Roles : OrderOf(q) > OrderOf(r) => q \notin ExportsAsked
       /\ NoPinWrite(initLog)
       /\ (phase = "failed" /\ last = NoCall) =>
             \A q \in RolesOf(numDisplays, have_backlight) :
                 OrderOf(q) < OrderOf(r) => Claimed(q)

(***************************************************************************)
(* C11: a second close_gpio_pin of a pin that was acquired and released    *)
(* changes nothing and closes no handle again: it returns, its behaviour   *)
(* is defined, and it touches neither the direction control, nor a handle, *)
(* nor the unexport control.  The code repeats all three steps, on a       *)
(* direction file that is gone and a FILE* that is already closed.         *)
(***************************************************************************)
ReleasedTwice ==
    /\ last.fn = "release" /\ prev = last
    /\ last.args[1] \in acquired
    /\ fault = {}

C11_SecondReleaseChangesNothing ==
    ReleasedTwice =>
      /\ Returned /\ ~ub
      /\ \A i \in 1..Len(log) : log[i].op # "fclose"
      /\ LET r == last.args[1]
         IN pins[r].dir = "in" /\ ~pins[r].exported /\ pins[r].fd = "closed"

\* the positions of the pauses, of the data-line writes and of the
\* Enable-line writes of a log
Pauses(l) == {i \in 1..Len(l) : l[i].op = "pause"}
DataSets(l) == UNION {SetsOn(l, d) : d \in DataRoles}
EnableSets(l) == UNION {SetsOn(l, r) : r \in EnableLines}

\* the writes at positions a+1..b-1 of l are one write of level v to each
\* role of R, and nothing else
OneWriteEach(l, a, b, R, v) ==
    /\ b - a - 1 = Cardinality(R)
    /\ \A i \in (a + 1)..(b - 1) : l[i].op = "set" /\ l[i].val = v
    /\ {l[i].pin : i \in (a + 1)..(b - 1)} = R

(***************************************************************************)
(* C12: in one SendByte, for the high nibble and again for the low one:    *)
(* the four data lines are cleared, then a pause of at least T, then the   *)
(* nibble is driven, a pause, the selected Enable lines go high, a pause,  *)
(* they go low, a pause; no data line and no Register-Select is written    *)
(* while an Enable line is high.                                           *)
(***************************************************************************)
C12_StepOrder ==
    (SentByte /\ Returned) =>
      LET P == Ascending(Pauses(log))
          D == Ascending(DataSets(log))
          S == {r \in EnableLines : Selects(r, last.args[1])}
      IN /\ Len(P) = 8 /\ Len(D) = 16
         /\ \A k \in 1..8 : log[P[k]].val >= T_STEP
         /\ P[8] = Len(log)
         /\ OneWriteEach(log, 1, P[1], DataRoles, 0)
         /\ P[1] + 5 = P[2]
         /\ {log[i].pin : i \in (P[1] + 1)..(P[2] - 1)} = DataRoles
         /\ OneWriteEach(log, P[2], P[3], S, 1)
         /\ OneWriteEach(log, P[3], P[4], S, 0)
         /\ OneWriteEach(log, P[4], P[5], DataRoles, 0)
         /\ P[5] + 5 = P[6]
         /\ {log[i].pin : i \in (P[5] + 1)..(P[6] - 1)} = DataRoles
         /\ OneWriteEach(log, P[6], P[7], S, 1)
         /\ OneWriteEach(log, P[7], P[8], S, 0)
         /\ \A i \in DataSets(log) \cup SetsOn(log, "rs") :
               \A r \in EnableLines : LineAt(log, r, i) # 1

C12_Witness ==
    /\ SentByte /\ Returned /\ ~ub /\ numDisplays = 2
    /\ last.args = <<0, RS_DATA, 90>>
    /\ Len(log) = 33
    /\ Cardinality(Pauses(log)) = 8
    /\ Cardinality(EnableSets(log)) = 8

(***************************************************************************)
(* C13: when hd_init_gpio returns an error because a pin of an active role *)
(* could not be acquired, no senddata, backlight or close hook has been    *)
(* registered.  The code registers senddata and close after the six        *)
(* required pins, before it sets up Backlight and Enable2.                 *)
(***************************************************************************)
C13_NoHookOnFailedInit ==
    (ret = <<-1>> /\ fault # {}) =>
      (~hooks.senddata /\ ~hooks.backlight /\ ~hooks.close)

\* the time paused between positions a and b of a log, in microseconds
RECURSIVE Elapsed(_, _, _)
Elapsed(l, a, b) ==
    IF a >= b THEN 0
    ELSE (IF l[a].op = "pause" THEN l[a].val ELSE 0) + Elapsed(l, a + 1, b)

(***************************************************************************)
(* C14: the bring-up of a successful hd_init_gpio latches 3, 3, 3, 2 with  *)
(* Register-Select low, and the time paused between the latches decreases: *)
(* first to second longer than second to third, longer than third to       *)
(* fourth.  The code pauses 200, 4300 and 200 microseconds.                *)
(***************************************************************************)
C14_BringUpPausesDecrease ==
    (ret = <<0>> /\ fault = {}) =>
      LET E == Ascending(FallingEdges(initLog, "en"))
      IN /\ Latched(initLog, "en") = <<3, 3, 3, 2>>
         /\ \A i \in FallingEdges(initLog, "en") : LineAt(initLog, "rs", i) = 0
         /\ Elapsed(initLog, E[1], E[2]) > Elapsed(initLog, E[2], E[3])
         /\ Elapsed(initLog, E[2], E[3]) > Elapsed(initLog, E[3], E[4])

\* the positions at which hd_init_gpio enters setup_gpio_pin
Exports == {i \in 1..Len(initLog) : initLog[i].op = "export"}

\* setup_gpio_pin had returned 0 for role q before position i
AcquiredBefore(q, i) ==
    \E j \in 1..(i - 1) : initLog[j] = Event("setup_ret", q, 0, TRUE)

\* and, with it, the pin was exported, an output, and its handle open
ClaimedBefore(q, i) ==
    \A op \in {"export", "direction_low", "open_value"} :
       \E j \in 1..(i - 1) :
          initLog[j].op = op /\ initLog[j].pin = q /\ initLog[j].eff

(***************************************************************************)
(* C15: hd_init_gpio acquires the pins in the order Enable,                *)
(* Register-Select, D7, D6, D5, D4, Backlight (when present), Enable2      *)
(* (with two controllers): a pin's acquisition starts only when every      *)
(* active pin before it in this order has been acquired, and the first     *)
(* pin write of the bring-up comes after the last active pin is acquired.  *)
(***************************************************************************)
C15_AcquireInFixedOrder ==
    LET A == RolesOf(numDisplays, have_backlight)
    IN /\ ExportsAsked \subseteq A
       /\ \A i \in Exports, j \in Exports :
             i < j => OrderOf(initLog[i].pin) < OrderOf(initLog[j].pin)
       /\ \A i \in Exports : \A q \in A :
             OrderOf(q) < OrderOf(initLog[i].pin) =>
                /\ AcquiredBefore(q, i)
                /\ fault = {} => ClaimedBefore(q, i)
       /\ \A i \in 1..Len(initLog) : initLog[i].op = "set" =>
             \A q \in A : /\ AcquiredBefore(q, i)
                          /\ fault = {} => ClaimedBefore(q, i)

C15_Witness ==
    /\ ret = <<0>> /\ fault = {} /\ numDisplays = 2 /\ have_backlight
    /\ [k \in 1..8 |-> initLog[Ascending(Exports)[k]].pin] = AcquireOrder
    /\ \E i \in 1..Len(initLog) :
          initLog[i].op = "set" /\ AcquiredBefore("en2", i)

\* the log of a SetBacklight(state) call: l, and the level it asks for
OneBacklightWrite(l, state) ==
    /\ Len(l) = 1
    /\ IsSet(l[1], "backlight")
    /\ l[1].val = (IF state = BACKLIGHT_ON THEN 1 ELSE 0)

(***************************************************************************)
(* C16: with a backlight configured, SetBacklight(state) writes the        *)
(* Backlight pin once, high for on and low otherwise, and no other pin,    *)
(* when the pin number is in 0..31; when it is not, it writes nothing,     *)
(* though hd_init_gpio acquired the pin.                                   *)
(***************************************************************************)
C16_BacklightRangeGuard ==
    have_backlight =>
      LET n == pins["backlight"].num
      IN /\ last.fn = "backlight" =>
              IF n \in 0..31
              THEN /\ OneBacklightWrite(log, last.args[1])
                   /\ log[1].eff => pins["backlight"].level = log[1].val
                   /\ fault = {} => log[1].eff
              ELSE /\ log = <<>>
                   /\ "backlight" \in acquired
                   /\ fault = {} => Claimed("backlight")
         /\ prev.fn = "backlight" =>
              IF n \in 0..31 THEN OneBacklightWrite(prevLog, prev.args[1])
              ELSE prevLog = <<>>

C16_Witness ==
    /\ have_backlight /\ fault = {} /\ pins["backlight"].num = GPIO_DEF_BL
    /\ prev = Call("backlight", <<BACKLIGHT_OFF>>)
    /\ last = Call("backlight", <<BACKLIGHT_ON>>)
    /\ prevLog = <<Event("set", "backlight", 0, TRUE)>>
    /\ log = <<Event("set", "backlight", 1, TRUE)>>
    /\ pins["backlight"].level = 1

\* the physical identifier a role is bound to
BoundTo(r) ==
    CASE r = "en" -> GPIO_DEF_EN
      [] r = "en2" -> GPIO_DEF_EN2
      [] r = "rs" -> GPIO_DEF_RS
      [] r = "d7" -> GPIO_DEF_D7
      [] r = "d6" -> GPIO_DEF_D6
      [] r = "d5" -> GPIO_DEF_D5
      [] r = "d4" -> GPIO_DEF_D4
      [] r = "backlight" -> pin_BL

\* a pin but for its level
Lifecycle(pin) == [pin EXCEPT !.level = 0]

\* between a successful initialisation and the shutdown
Operational == phase = "operational" /\ ret = <<0>>

\* every acquired pin is bound as configured and exported; it is an output
\* with an open handle where the OS refused nothing
AcquiredStayClaimed ==
    Operational =>
      \A r \in acquired :
         /\ pins[r].num = BoundTo(r)
         /\ pins[r].exported
         /\ fault = {} => Claimed(r)

\* a step that leaves the driver operational changes pin levels only
LevelsOnly ==
    (Operational /\ phase' = "operational") =>
       /\ acquired' = acquired
       /\ \A r \in Roles : Lifecycle(pins'[r]) = Lifecycle(pins[r])
       /\ \A i \in 1..Len(log') : log'[i].op \in {"set", "pause"}

(***************************************************************************)
(* C17: from a successful initialisation to the shutdown every acquired    *)
(* pin stays exported, an output, its write handle open and its number     *)
(* unchanged, whatever SendByte and SetBacklight calls are made: the two   *)
(* operations change pin levels only.                                      *)
(***************************************************************************)
C17_PinsStayClaimed == [](AcquiredStayClaimed) /\ [][LevelsOnly]_vars

C17_Witness ==
    /\ Operational /\ fault = {} /\ numDisplays = 2 /\ have_backlight
    /\ prev.fn = "senddata" /\ last.fn = "backlight"
    /\ acquired = Roles
    /\ \A r \in Roles : Claimed(r) /\ pins[r].num = BoundTo(r)
    /\ pins["backlight"].level = 1 /\ pins["d5"].level = 1

(***************************************************************************)
(* C18: every pin write of a SendByte goes to a pin the initialisation     *)
(* acquired, whatever the target display and the number of controllers;    *)
(* with one controller Enable2 is never written.  The code writes Enable2  *)
(* for target display 2 without looking at numDisplays.                    *)
(***************************************************************************)
C18_WritesOnlyAcquiredPins ==
    (SentByte /\ fault = {}) =>
       /\ \A i \in 1..Len(log) : log[i].op = "set" => log[i].pin \in acquired
       /\ numDisplays = 1 => SetsOn(log, "en2") = {}
       /\ Returned /\ ~ub

(***************************************************************************)
(* C19: after a successful initialisation both Enable lines are low        *)
(* whenever no SendByte is in progress, whatever calls were made with      *)
(* whatever arguments, and every SendByte runs to completion and returns.  *)
(* A SendByte to display 2 of a one-controller configuration runs into     *)
(* undefined behaviour and need not return.                                *)
(***************************************************************************)
C19_EnablesLowBetweenCalls ==
    (Operational /\ fault = {}) =>
       /\ pins["en"].level = 0
       /\ "en2" \in acquired => pins["en2"].level = 0
       /\ SentByte => (Returned /\ ~ub)

=============================================================================
